---- MODULE Spec2Model ----
(***************************************************************************)
(* Model of adsbcot/commands.py: cli() loads the configuration and runs    *)
(* main(); main() wires the queues and the workers of the ADS-B to         *)
(* Cursor-on-Target gateway, starts them as asyncio tasks and returns when *)
(* the first of them completes.                                            *)
(*                                                                         *)
(* Text is modelled as a sequence of one-character strings so that the     *)
(* substring test ("http" in scheme) and str.split("+") are computed.      *)
(* asyncio is cooperative: a worker task only runs while main() is         *)
(* suspended in asyncio.wait(); put() on an unbounded asyncio.Queue does   *)
(* not suspend.                                                            *)
(***************************************************************************)
EXTENDS Integers, Sequences, FiniteSets, TLC

\* ------------------------------------------------------------------ bounds
MaxFrames == 2      \* raw frames the Net Receiver reads from its socket
MaxPolls == 2       \* poll cycles of the poll-variant Source Worker
MaxRx == 1          \* events the Receiver reads from the wire

\* ------------------------------------------------------------------- text
None == <<"<None>">>            \* dict.get() of a missing key

s_http == <<"h","t","t","p">>
s_tcp == <<"t","c","p">>
s_plus == <<"+">>
s_raw == <<"r","a","w">>

\* the URLs a configuration may hold ("<scheme>:h", or no scheme at all)
SourceUrls ==
    { <<"h","t","t","p",":","h">>,
      <<"h","t","t","p","s",":","h">>,
      <<"t","c","p",":","h">>,
      <<"T","C","P","+","b",":","h">>,
      <<"t","c","p","+","a","+","b",":","h">>,
      <<"t","c","p","+","h","t","t","p",":","h">>,
      <<"u","d","p",":","h">>,
      <<"h">> }

DestUrls == { <<"t","c","p",":","h">> }

ConfigValues(urls) == {None, <<>>} \cup urls

Truthy(v) == v # None /\ v # <<>>

Lower(c) ==
    CASE c = "T" -> "t"
      [] c = "C" -> "c"
      [] c = "P" -> "p"
      [] OTHER -> c

SchemeChars == {"a","b","c","h","p","r","s","t","u","d","w","T","C","P","+"}

RECURSIVE Find(_, _, _)
Find(s, c, i) ==
    IF i > Len(s) THEN 0
    ELSE IF s[i] = c THEN i
    ELSE Find(s, c, i + 1)

\* urllib.parse.urlparse(url).scheme
urlparse_scheme(url) ==
    LET i == Find(url, ":", 1) IN
    IF i > 1 /\ \A k \in 1..(i - 1) : url[k] \in SchemeChars
    THEN [k \in 1..(i - 1) |-> Lower(url[k])]
    ELSE <<>>

\* Python's  sub in s  on str
Contains(sub, s) ==
    \E i \in 0..(Len(s) - Len(sub)) :
        \A k \in 1..Len(sub) : s[i + k] = sub[k]

\* Python's  s.split(c)  for a one-character separator
RECURSIVE Split(_, _)
Split(s, c) ==
    LET i == Find(s, c, 1) IN
    IF i = 0 THEN <<s>>
    ELSE <<SubSeq(s, 1, i - 1)>> \o Split(SubSeq(s, i + 1, Len(s)), c)

\* ----------------------------------------------------------------- queues
QueueNames == {"tx_queue", "rx_queue", "net_queue"}

\* asyncio.Queue() is constructed without maxsize: 0, no limit
QueueMaxsize == 0

\* asyncio.Queue(maxsize=1)
Full_Bounded(q) == Len(q) >= 1

\* asyncio.Queue.full(): put() suspends its caller while this holds
Full(q) == QueueMaxsize > 0 /\ Len(q) >= QueueMaxsize

\* asyncio.Queue.put_nowait(): the item goes to the right end
QueuePut(q, x) == Append(q, x)

\* asyncio.LifoQueue: get() takes the item put last
QueueGet_Lifo(q) == [item |-> q[Len(q)], rest |-> SubSeq(q, 1, Len(q) - 1)]

\* asyncio.Queue.get_nowait(): the item comes from the left end
QueueGet(q) == [item |-> Head(q), rest |-> Tail(q)]

\* ------------------------------------------------------------------ state
TaskNames == {"net_receiver", "message_worker", "read_worker", "write_worker"}

\* a worker object: its class, the queue it is given for CoT events (or, for
\* the Net Receiver, for raw frames), its data_type and its net_queue
NoWorker ==
    [kind |-> "none", queue |-> "none", data_type |-> None, net_queue |-> "none"]

hello_event == [type |-> "hello", id |-> 0]

VARIABLES
    with_pymodes,     \* module level: pyModeS could be imported
    has_section,      \* the config file has an [adsbcot] section
    COT_URL,          \* combined_config.get("COT_URL")
    DUMP1090_URL,     \* combined_config.get("DUMP1090_URL")
    clipc,            \* cli(): "start", "running" (inside main), "exited"
    exitStatus,       \* process exit status once clipc = "exited"
    printed,          \* diagnostics printed so far
    mainpc,           \* main(): position
    error,            \* exception main() raised ("none" if none)
    connects,         \* calls made to pytak.protocol_factory
    transport,        \* reader/writer pair obtained
    queue,            \* the asyncio.Queue objects constructed so far, by name
    write_worker,
    read_worker,
    message_worker,
    adsbnetreceiver,
    tasks,            \* the set main() collects the started tasks in
    started,          \* times a task was started, per worker
    taskState,        \* "none", "pending", "finished", "failed", "cancelled"
    done,             \* first result of asyncio.wait
    pending,          \* second result of asyncio.wait
    reported,         \* times "Task completed" was printed, per task
    events,           \* order of the orchestrator's own steps
    framesRead,       \* frames the Net Receiver has read
    polls,            \* poll cycles done
    rxRead,           \* events the Receiver has read
    wire,             \* events the Transmitter has written
    enqueued,         \* history: the items put on each queue, in order
    dequeued          \* history: the items got from each queue, in order

cfgvars == <<with_pymodes, has_section, COT_URL, DUMP1090_URL>>
clivars == <<clipc, exitStatus, printed>>
workervars == <<write_worker, read_worker, message_worker, adsbnetreceiver>>
taskvars == <<tasks, started, taskState>>
waitvars == <<done, pending, reported>>
iovars == <<framesRead, polls, rxRead, wire, enqueued, dequeued>>

vars == <<cfgvars, clivars, mainpc, error, connects, transport, queue,
          workervars, taskvars, waitvars, events, iovars>>

Init ==
    /\ with_pymodes \in BOOLEAN
    /\ has_section \in BOOLEAN
    /\ COT_URL \in ConfigValues(DestUrls)
    /\ DUMP1090_URL \in ConfigValues(SourceUrls)
    /\ clipc = "start"
    /\ exitStatus = 0
    /\ printed = {}
    /\ mainpc = "idle"
    /\ error = "none"
    /\ connects = 0
    /\ transport = FALSE
    /\ queue = [n \in {} |-> <<>>]
    /\ write_worker = NoWorker
    /\ read_worker = NoWorker
    /\ message_worker = NoWorker
    /\ adsbnetreceiver = NoWorker
    /\ tasks = {}
    /\ started = [t \in TaskNames |-> 0]
    /\ taskState = [t \in TaskNames |-> "none"]
    /\ done = {}
    /\ pending = {}
    /\ reported = [t \in TaskNames |-> 0]
    /\ events = <<>>
    /\ framesRead = 0
    /\ polls = 0
    /\ rxRead = 0
    /\ wire = <<>>
    /\ enqueued = [n \in QueueNames |-> <<>>]
    /\ dequeued = [n \in QueueNames |-> <<>>]

\* -------------------------------------------------------------------- cli
\* cli() without the check of DUMP1090_URL (lines 141-146)
Cli_NoDumpCheck ==
    /\ clipc = "start"
    /\ IF ~has_section
       THEN /\ clipc' = "exited"
            /\ exitStatus' = 1
            /\ printed' = printed \cup {"Traceback: KeyError"}
            /\ UNCHANGED mainpc
       ELSE IF ~Truthy(COT_URL)
       THEN /\ clipc' = "exited"
            /\ exitStatus' = 1
            /\ printed' = printed \cup {"Please specify a CoT Destination URL"}
            /\ UNCHANGED mainpc
       ELSE /\ clipc' = "running"
            /\ mainpc' = "begin"
            /\ UNCHANGED <<exitStatus, printed>>
    /\ UNCHANGED <<cfgvars, error, connects, transport, queue, workervars,
                   taskvars, waitvars, events, iovars>>

\* cli(), lines 105-149: read the configuration, check it, enter main()
Cli ==
    /\ clipc = "start"
    /\ IF ~has_section
       THEN \* config["adsbcot"] raises KeyError
            /\ clipc' = "exited"
            /\ exitStatus' = 1
            /\ printed' = printed \cup {"Traceback: KeyError"}
            /\ UNCHANGED mainpc
       ELSE IF ~Truthy(COT_URL)
       THEN /\ clipc' = "exited"
            /\ exitStatus' = 1
            /\ printed' = printed \cup {"Please specify a CoT Destination URL"}
            /\ UNCHANGED mainpc
       ELSE IF ~Truthy(DUMP1090_URL)
       THEN /\ clipc' = "exited"
            /\ exitStatus' = 1
            /\ printed' = printed \cup {"Please specify a Dump1090 Source URL"}
            /\ UNCHANGED mainpc
       ELSE /\ clipc' = "running"
            /\ mainpc' = "begin"
            /\ UNCHANGED <<exitStatus, printed>>
    /\ UNCHANGED <<cfgvars, error, connects, transport, queue, workervars,
                   taskvars, waitvars, events, iovars>>

\* ------------------------------------------------------------------- main
\* lines 42-45: the two event queues
MainBegin ==
    /\ mainpc = "begin"
    /\ queue' = queue @@ ("tx_queue" :> <<>>) @@ ("rx_queue" :> <<>>)
    /\ events' = events \o <<"tx_queue", "rx_queue">>
    /\ mainpc' = "connect"
    /\ UNCHANGED <<cfgvars, clivars, error, connects, transport, workervars,
                   taskvars, waitvars, iovars>>

\* main() that goes on without asking the collaborator for a connection
MainConnect_Skip ==
    /\ mainpc = "connect"
    /\ mainpc' = "transport_workers"
    /\ UNCHANGED <<cfgvars, clivars, error, connects, transport, queue,
                   workervars, taskvars, waitvars, events, iovars>>

\* main() that notes a failed connection and goes on
MainConnect_IgnoreFailure ==
    /\ mainpc = "connect"
    /\ connects' = connects + 1
    /\ \E ok \in BOOLEAN :
         IF ok
         THEN /\ transport' = TRUE
              /\ events' = Append(events, "connect")
              /\ UNCHANGED error
         ELSE /\ error' = "ConnectError"
              /\ UNCHANGED <<transport, events>>
    /\ mainpc' = "transport_workers"
    /\ UNCHANGED <<cfgvars, clivars, queue, workervars, taskvars, waitvars,
                   iovars>>

\* line 48: await pytak.protocol_factory(cot_url); the collaborator either
\* returns a connected reader/writer pair or raises
MainConnect ==
    /\ mainpc = "connect"
    /\ connects' = connects + 1
    /\ \E ok \in BOOLEAN :
         IF ok
         THEN /\ transport' = TRUE
              /\ mainpc' = "transport_workers"
              /\ events' = Append(events, "connect")
              /\ UNCHANGED error
         ELSE /\ mainpc' = "raised"
              /\ error' = "ConnectError"
              /\ UNCHANGED <<transport, events>>
    /\ UNCHANGED <<cfgvars, clivars, queue, workervars, taskvars, waitvars,
                   iovars>>

\* the two queues given to the wrong transport workers
MainTransportWorkers_Swapped ==
    /\ mainpc = "transport_workers"
    /\ write_worker' = [kind |-> "EventTransmitter", queue |-> "rx_queue",
                        data_type |-> None, net_queue |-> "none"]
    /\ read_worker' = [kind |-> "EventReceiver", queue |-> "tx_queue",
                       data_type |-> None, net_queue |-> "none"]
    /\ tasks' = {}
    /\ events' = events \o <<"write_worker", "read_worker">>
    /\ mainpc' = "select"
    /\ UNCHANGED <<cfgvars, clivars, error, connects, transport, queue,
                   message_worker, adsbnetreceiver, started, taskState,
                   waitvars, iovars>>

\* lines 49-55: EventTransmitter on tx_queue, EventReceiver on rx_queue
MainTransportWorkers ==
    /\ mainpc = "transport_workers"
    /\ write_worker' = [kind |-> "EventTransmitter", queue |-> "tx_queue",
                        data_type |-> None, net_queue |-> "none"]
    /\ read_worker' = [kind |-> "EventReceiver", queue |-> "rx_queue",
                       data_type |-> None, net_queue |-> "none"]
    /\ tasks' = {}
    /\ events' = events \o <<"write_worker", "read_worker">>
    /\ mainpc' = "select"
    /\ UNCHANGED <<cfgvars, clivars, error, connects, transport, queue,
                   message_worker, adsbnetreceiver, started, taskState,
                   waitvars, iovars>>

\* dump1090_url.scheme, lines 53-55
scheme == urlparse_scheme(DUMP1090_URL)

\* line 58:  "http" in dump1090_url.scheme
IsPoll(sch) == Contains(s_http, sch)

\* "if" in place of "elif" at line 66
IsStream_AnyTcp(sch) == Contains(s_tcp, sch)

\* line 66:  elif "tcp" in dump1090_url.scheme
IsStream(sch) == ~IsPoll(sch) /\ Contains(s_tcp, sch)

\* line 77:  _, data_type = scheme.split("+")  unpacks exactly two parts
UnpackOK(sch) == Len(Split(sch, "+")) = 2

\* data_type, _ = scheme.split("+")
DataType_First(sch) ==
    IF Contains(s_plus, sch) THEN Split(sch, "+")[1] ELSE s_raw

\* lines 76-79
DataType(sch) ==
    IF Contains(s_plus, sch) THEN Split(sch, "+")[2] ELSE s_raw

\* asyncio.ensure_future(worker.run()) and tasks.add(...)
StartTask(t) ==
    /\ started' = [started EXCEPT ![t] = @ + 1]
    /\ taskState' = [taskState EXCEPT ![t] = "pending"]
    /\ tasks' = tasks \cup {t}

\* the decoder check of lines 67-72 made on the poll branch too
MainSelectPoll_Checked ==
    /\ mainpc = "select"
    /\ IsPoll(scheme)
    /\ IF ~with_pymodes
       THEN /\ printed' = printed \cup {"Please reinstall adsbcot with pyModeS support"}
            /\ error' = "MissingPyModeS"
            /\ mainpc' = "raised"
            /\ events' = Append(events, "with_pymodes")
            /\ UNCHANGED message_worker
       ELSE /\ message_worker' = [kind |-> "ADSBWorker", queue |-> "tx_queue",
                                 data_type |-> None, net_queue |-> "none"]
            /\ events' = events \o <<"with_pymodes", "message_worker">>
            /\ mainpc' = "hello"
            /\ UNCHANGED <<printed, error>>
    /\ UNCHANGED <<cfgvars, clipc, exitStatus, connects, transport, queue,
                   write_worker, read_worker, adsbnetreceiver, taskvars,
                   waitvars, iovars>>

\* lines 58-65: the poll variant
MainSelectPoll ==
    /\ mainpc = "select"
    /\ IsPoll(scheme)
    /\ message_worker' = [kind |-> "ADSBWorker", queue |-> "tx_queue",
                          data_type |-> None, net_queue |-> "none"]
    /\ events' = Append(events, "message_worker")
    /\ mainpc' = "hello"
    /\ UNCHANGED <<cfgvars, clivars, error, connects, transport, queue,
                   write_worker, read_worker, adsbnetreceiver, taskvars,
                   waitvars, iovars>>

\* the stream variant with the decoder check moved after line 83
MainSelectStream_CheckLate ==
    /\ mainpc = "select"
    /\ IsStream(scheme)
    /\ queue' = queue @@ ("net_queue" :> <<>>)
    /\ adsbnetreceiver' =
         [kind |-> "ADSBNetReceiver", queue |-> "net_queue",
          data_type |-> DataType(scheme), net_queue |-> "net_queue"]
    /\ StartTask("net_receiver")
    /\ IF ~with_pymodes
       THEN /\ printed' = printed \cup {"Please reinstall adsbcot with pyModeS support"}
            /\ error' = "MissingPyModeS"
            /\ mainpc' = "raised"
            /\ events' = events \o <<"net_queue", "adsbnetreceiver",
                                     "start:net_receiver">>
            /\ UNCHANGED message_worker
       ELSE /\ message_worker' =
                 [kind |-> "ADSBNetWorker", queue |-> "tx_queue",
                  data_type |-> DataType(scheme), net_queue |-> "net_queue"]
            /\ events' = events \o <<"net_queue", "adsbnetreceiver",
                                     "start:net_receiver", "message_worker">>
            /\ mainpc' = "hello"
            /\ UNCHANGED <<printed, error>>
    /\ UNCHANGED <<cfgvars, clipc, exitStatus, connects, transport,
                   write_worker, read_worker, waitvars, iovars>>

\* lines 66-91: the stream variant
MainSelectStream ==
    /\ mainpc = "select"
    /\ IsStream(scheme)
    /\ IF ~with_pymodes
       THEN \* lines 67-72
            /\ printed' = printed \cup {"Please reinstall adsbcot with pyModeS support"}
            /\ error' = "MissingPyModeS"
            /\ mainpc' = "raised"
            /\ events' = Append(events, "with_pymodes")
            /\ UNCHANGED <<queue, message_worker, adsbnetreceiver, taskvars>>
       ELSE IF Contains(s_plus, scheme) /\ ~UnpackOK(scheme)
       THEN \* line 74, then line 77 raises ValueError
            /\ queue' = queue @@ ("net_queue" :> <<>>)
            /\ events' = events \o <<"with_pymodes", "net_queue">>
            /\ error' = "ValueError"
            /\ mainpc' = "raised"
            /\ UNCHANGED <<printed, message_worker, adsbnetreceiver, taskvars>>
       ELSE /\ queue' = queue @@ ("net_queue" :> <<>>)
            /\ adsbnetreceiver' =
                 [kind |-> "ADSBNetReceiver", queue |-> "net_queue",
                  data_type |-> DataType(scheme), net_queue |-> "net_queue"]
            /\ StartTask("net_receiver")
            /\ message_worker' =
                 [kind |-> "ADSBNetWorker", queue |-> "tx_queue",
                  data_type |-> DataType(scheme), net_queue |-> "net_queue"]
            /\ events' = events \o <<"with_pymodes", "net_queue",
                                     "adsbnetreceiver",
                                     "start:net_receiver", "message_worker">>
            /\ mainpc' = "hello"
            /\ UNCHANGED <<printed, error>>
    /\ UNCHANGED <<cfgvars, clipc, exitStatus, connects, transport,
                   write_worker, read_worker, waitvars, iovars>>

\* an "else" that falls back to the poll variant
MainSelectNeither_Default ==
    /\ mainpc = "select"
    /\ ~IsPoll(scheme)
    /\ ~IsStream(scheme)
    /\ message_worker' = [kind |-> "ADSBWorker", queue |-> "tx_queue",
                          data_type |-> None, net_queue |-> "none"]
    /\ events' = Append(events, "message_worker")
    /\ mainpc' = "hello"
    /\ UNCHANGED <<cfgvars, clivars, error, connects, transport, queue,
                   write_worker, read_worker, adsbnetreceiver, taskvars,
                   waitvars, iovars>>

\* neither branch of lines 58-91 is taken
MainSelectNeither ==
    /\ mainpc = "select"
    /\ ~IsPoll(scheme)
    /\ ~IsStream(scheme)
    /\ mainpc' = "hello"
    /\ UNCHANGED <<cfgvars, clivars, error, connects, transport, queue,
                   workervars, taskvars, waitvars, events, iovars>>

\* main() without line 93
MainHello_Skip ==
    /\ mainpc = "hello"
    /\ mainpc' = "start"
    /\ UNCHANGED <<cfgvars, clivars, error, connects, transport, queue,
                   workervars, taskvars, waitvars, events, iovars>>

\* line 93: await tx_queue.put(hello_event); the queue is unbounded, so the
\* put does not suspend main()
MainHello ==
    /\ mainpc = "hello"
    /\ ~Full(queue["tx_queue"])
    /\ queue' = [queue EXCEPT !["tx_queue"] = QueuePut(@, hello_event)]
    /\ enqueued' = [enqueued EXCEPT !["tx_queue"] = Append(@, hello_event)]
    /\ events' = Append(events, "hello")
    /\ mainpc' = "start"
    /\ UNCHANGED <<cfgvars, clivars, error, connects, transport, workervars,
                   taskvars, waitvars, framesRead, polls, rxRead, wire,
                   dequeued>>

\* line 96 without tasks.add(): the Receiver is started, not waited on
MainStartTasks_Forget ==
    /\ mainpc = "start"
    /\ IF message_worker = NoWorker
       THEN /\ error' = "UnboundLocalError"
            /\ mainpc' = "raised"
            /\ UNCHANGED <<taskvars, events>>
       ELSE /\ started' = [t \in TaskNames |->
                             IF t = "net_receiver" THEN started[t]
                             ELSE started[t] + 1]
            /\ taskState' = [t \in TaskNames |->
                               IF t = "net_receiver" THEN taskState[t]
                               ELSE "pending"]
            /\ tasks' = tasks \cup {"message_worker", "write_worker"}
            /\ events' = events \o <<"start:message_worker",
                                     "start:read_worker", "start:write_worker">>
            /\ mainpc' = "wait"
            /\ UNCHANGED error
    /\ UNCHANGED <<cfgvars, clivars, connects, transport, queue, workervars,
                   waitvars, iovars>>

\* lines 95-97: message_worker is unbound when no branch assigned it
MainStartTasks ==
    /\ mainpc = "start"
    /\ IF message_worker = NoWorker
       THEN /\ error' = "UnboundLocalError"
            /\ mainpc' = "raised"
            /\ UNCHANGED <<taskvars, events>>
       ELSE /\ started' = [t \in TaskNames |->
                             IF t = "net_receiver" THEN started[t]
                             ELSE started[t] + 1]
            /\ taskState' = [t \in TaskNames |->
                               IF t = "net_receiver" THEN taskState[t]
                               ELSE "pending"]
            /\ tasks' = tasks \cup {"message_worker", "read_worker",
                                    "write_worker"}
            /\ events' = events \o <<"start:message_worker",
                                     "start:read_worker", "start:write_worker">>
            /\ mainpc' = "wait"
            /\ UNCHANGED error
    /\ UNCHANGED <<cfgvars, clivars, connects, transport, queue, workervars,
                   waitvars, iovars>>

\* line 99: asyncio.wait(tasks, return_when=FIRST_COMPLETED) suspends main()
MainWait ==
    /\ mainpc = "wait"
    /\ mainpc' = "waiting"
    /\ events' = Append(events, "wait")
    /\ UNCHANGED <<cfgvars, clivars, error, connects, transport, queue,
                   workervars, taskvars, waitvars, iovars>>

Completed(t) == taskState[t] \in {"finished", "failed"}

\* return_when=asyncio.ALL_COMPLETED
WaitOver_All(ts) == \A t \in ts : Completed(t)

\* return_when=asyncio.FIRST_COMPLETED: the wait is over once any of the
\* awaited tasks is done
WaitOver(ts) == \E t \in ts : Completed(t)

\* main() that cancels the tasks still pending when the wait returns
MainResume_Cancel ==
    /\ mainpc = "waiting"
    /\ WaitOver(tasks)
    /\ done' = {t \in tasks : Completed(t)}
    /\ pending' = {t \in tasks : ~Completed(t)}
    /\ reported' = [t \in TaskNames |->
                      IF t \in tasks /\ Completed(t) THEN reported[t] + 1
                      ELSE reported[t]]
    /\ taskState' = [t \in TaskNames |->
                       IF taskState[t] = "pending" THEN "cancelled"
                       ELSE taskState[t]]
    /\ printed' = printed \cup {"Task completed"}
    /\ events' = Append(events, "return")
    /\ mainpc' = "returned"
    /\ UNCHANGED <<cfgvars, clipc, exitStatus, error, connects, transport,
                   queue, workervars, tasks, started, iovars>>

\* main() that prints every task of the set it waited on
MainResume_ReportAll ==
    /\ mainpc = "waiting"
    /\ WaitOver(tasks)
    /\ done' = {t \in tasks : Completed(t)}
    /\ pending' = {t \in tasks : ~Completed(t)}
    /\ reported' = [t \in TaskNames |->
                      IF t \in tasks THEN reported[t] + 1 ELSE reported[t]]
    /\ printed' = printed \cup {"Task completed"}
    /\ events' = Append(events, "return")
    /\ mainpc' = "returned"
    /\ UNCHANGED <<cfgvars, clipc, exitStatus, error, connects, transport,
                   queue, workervars, taskvars, iovars>>

\* main() that asks each done task for its result(), which re-raises the
\* exception of a failed task
MainResume_Reraise ==
    /\ mainpc = "waiting"
    /\ WaitOver(tasks)
    /\ done' = {t \in tasks : Completed(t)}
    /\ pending' = {t \in tasks : ~Completed(t)}
    /\ reported' = [t \in TaskNames |->
                      IF t \in tasks /\ Completed(t) THEN reported[t] + 1
                      ELSE reported[t]]
    /\ printed' = printed \cup {"Task completed"}
    /\ events' = Append(events, "return")
    /\ IF \E t \in tasks : taskState[t] = "failed"
       THEN mainpc' = "raised" /\ error' = "TaskError"
       ELSE mainpc' = "returned" /\ UNCHANGED error
    /\ UNCHANGED <<cfgvars, clipc, exitStatus, connects, transport,
                   queue, workervars, taskvars, iovars>>

\* lines 99-102: the wait returns (done, pending); each done task is printed
MainResume ==
    /\ mainpc = "waiting"
    /\ WaitOver(tasks)
    /\ done' = {t \in tasks : Completed(t)}
    /\ pending' = {t \in tasks : ~Completed(t)}
    /\ reported' = [t \in TaskNames |->
                      IF t \in tasks /\ Completed(t) THEN reported[t] + 1
                      ELSE reported[t]]
    /\ printed' = printed \cup {"Task completed"}
    /\ events' = Append(events, "return")
    /\ mainpc' = "returned"
    /\ UNCHANGED <<cfgvars, clipc, exitStatus, error, connects, transport,
                   queue, workervars, taskvars, iovars>>

\* lines 148-155: asyncio.run() (Python >= 3.7) cancels the tasks that are
\* left when main() is over and closes the loop; on Python 3.6 the loop is
\* closed with the tasks still pending.  An exception of main() ends the
\* process.  The interpreter's version shows only here.
CliFinish ==
    /\ clipc = "running"
    /\ mainpc \in {"returned", "raised"}
    /\ \E py37 \in BOOLEAN :
         taskState' = [t \in TaskNames |->
                         IF py37 /\ taskState[t] = "pending" THEN "cancelled"
                         ELSE taskState[t]]
    /\ IF mainpc = "raised"
       THEN /\ exitStatus' = 1
            /\ printed' = printed \cup {"Traceback"}
       ELSE /\ exitStatus' = 0
            /\ UNCHANGED printed
    /\ clipc' = "exited"
    /\ UNCHANGED <<cfgvars, mainpc, error, connects, transport, queue,
                   workervars, tasks, started, waitvars, events, iovars>>

\* ---------------------------------------------------------------- workers
\* tasks that run as soon as they are created
Running_Eager(t) == taskState[t] = "pending"

\* a task runs only while main() is suspended: in asyncio.wait, or in a put
\* on a full queue
Running(t) ==
    /\ taskState[t] = "pending"
    /\ \/ mainpc = "waiting"
       \/ mainpc = "hello" /\ Full(queue["tx_queue"])

FrameKinds == {"ok", "malformed", "filtered"}

\* ADSBNetReceiver.run: read one frame from the socket, put it on its queue
NetReceiverStep ==
    /\ Running("net_receiver")
    /\ framesRead < MaxFrames
    /\ ~Full(queue[adsbnetreceiver.queue])
    /\ framesRead' = framesRead + 1
    /\ \E k \in FrameKinds :
         LET frame == [id |-> framesRead + 1, kind |-> k]
         IN  /\ queue' = [queue EXCEPT ![adsbnetreceiver.queue] =
                            QueuePut(@, frame)]
             /\ enqueued' = [enqueued EXCEPT ![adsbnetreceiver.queue] =
                               Append(@, frame)]
    /\ UNCHANGED <<cfgvars, clivars, mainpc, error, connects, transport,
                   workervars, taskvars, waitvars, events, polls, rxRead, wire,
                   dequeued>>

\* a worker whose loop ends on a frame the decoder rejects
StreamWorkerStep_StopOnBad ==
    /\ Running("message_worker")
    /\ message_worker.kind = "ADSBNetWorker"
    /\ queue[message_worker.net_queue] # <<>>
    /\ ~Full(queue[message_worker.queue])
    /\ LET got == QueueGet(queue[message_worker.net_queue])
           frame == got.item
           rest == [queue EXCEPT ![message_worker.net_queue] = got.rest]
           event == [type |-> "cot", id |-> frame.id]
       IN  /\ dequeued' = [dequeued EXCEPT ![message_worker.net_queue] =
                               Append(@, frame)]
           /\ IF frame.kind = "ok"
              THEN /\ queue' = [rest EXCEPT ![message_worker.queue] =
                                  QueuePut(@, event)]
                   /\ enqueued' = [enqueued EXCEPT ![message_worker.queue] =
                                     Append(@, event)]
                   /\ UNCHANGED taskState
              ELSE /\ queue' = rest
                   /\ taskState' = [taskState EXCEPT !["message_worker"] =
                                      IF frame.kind = "malformed" THEN "failed"
                                      ELSE @]
                   /\ UNCHANGED enqueued
    /\ UNCHANGED <<cfgvars, clivars, mainpc, error, connects, transport,
                   workervars, tasks, started, waitvars, events, framesRead,
                   polls, rxRead, wire>>

\* ADSBNetWorker.run: get one frame, decode, filter, put the CoT event
StreamWorkerStep ==
    /\ Running("message_worker")
    /\ message_worker.kind = "ADSBNetWorker"
    /\ queue[message_worker.net_queue] # <<>>
    /\ ~Full(queue[message_worker.queue])
    /\ LET got == QueueGet(queue[message_worker.net_queue])
           frame == got.item
           rest == [queue EXCEPT ![message_worker.net_queue] = got.rest]
           event == [type |-> "cot", id |-> frame.id]
       IN  /\ dequeued' = [dequeued EXCEPT ![message_worker.net_queue] =
                               Append(@, frame)]
           /\ IF frame.kind = "ok"
              THEN /\ queue' = [rest EXCEPT ![message_worker.queue] =
                                  QueuePut(@, event)]
                   /\ enqueued' = [enqueued EXCEPT ![message_worker.queue] =
                                     Append(@, event)]
              ELSE /\ queue' = rest
                   /\ UNCHANGED enqueued
    /\ UNCHANGED <<cfgvars, clivars, mainpc, error, connects, transport,
                   workervars, taskvars, waitvars, events, framesRead, polls,
                   rxRead, wire>>

\* ADSBWorker.run: one poll cycle yields an event, or is skipped
PollWorkerStep ==
    /\ Running("message_worker")
    /\ message_worker.kind = "ADSBWorker"
    /\ polls < MaxPolls
    /\ ~Full(queue[message_worker.queue])
    /\ polls' = polls + 1
    /\ \E good \in BOOLEAN :
         LET event == [type |-> "cot", id |-> polls + 1]
         IN  IF good
             THEN /\ queue' = [queue EXCEPT ![message_worker.queue] =
                                 QueuePut(@, event)]
                  /\ enqueued' = [enqueued EXCEPT ![message_worker.queue] =
                                    Append(@, event)]
             ELSE UNCHANGED <<queue, enqueued>>
    /\ UNCHANGED <<cfgvars, clivars, mainpc, error, connects, transport,
                   workervars, taskvars, waitvars, events, framesRead, rxRead,
                   wire, dequeued>>

\* pytak.EventTransmitter.run: get one event, write it
TransmitterStep ==
    /\ Running("write_worker")
    /\ queue[write_worker.queue] # <<>>
    /\ LET got == QueueGet(queue[write_worker.queue])
       IN  /\ wire' = Append(wire, got.item)
           /\ dequeued' = [dequeued EXCEPT ![write_worker.queue] =
                               Append(@, got.item)]
           /\ queue' = [queue EXCEPT ![write_worker.queue] = got.rest]
    /\ UNCHANGED <<cfgvars, clivars, mainpc, error, connects, transport,
                   workervars, taskvars, waitvars, events, framesRead, polls,
                   rxRead, enqueued>>

\* pytak.EventReceiver.run: read one event, put it on its queue
ReceiverStep ==
    /\ Running("read_worker")
    /\ rxRead < MaxRx
    /\ ~Full(queue[read_worker.queue])
    /\ rxRead' = rxRead + 1
    /\ LET event == [type |-> "rx", id |-> rxRead + 1]
       IN  /\ queue' = [queue EXCEPT ![read_worker.queue] = QueuePut(@, event)]
           /\ enqueued' = [enqueued EXCEPT ![read_worker.queue] =
                             Append(@, event)]
    /\ UNCHANGED <<cfgvars, clivars, mainpc, error, connects, transport,
                   workervars, taskvars, waitvars, events, framesRead, polls,
                   wire, dequeued>>

\* a worker's run() returns or raises
TaskComplete(t) ==
    /\ Running(t)
    /\ \E how \in {"finished", "failed"} :
         taskState' = [taskState EXCEPT ![t] = how]
    /\ UNCHANGED <<cfgvars, clivars, mainpc, error, connects, transport, queue,
                   workervars, tasks, started, waitvars, events, iovars>>

\* ------------------------------------------------------------- the system
MainStep ==
    \/ MainBegin
    \/ MainConnect
    \/ MainTransportWorkers
    \/ MainSelectPoll
    \/ MainSelectStream
    \/ MainSelectNeither
    \/ MainHello
    \/ MainStartTasks
    \/ MainWait
    \/ MainResume

WorkerStep ==
    \/ NetReceiverStep
    \/ StreamWorkerStep
    \/ PollWorkerStep
    \/ TransmitterStep
    \/ ReceiverStep
    \/ \E t \in TaskNames : TaskComplete(t)

Next ==
    \/ Cli
    \/ MainStep
    \/ WorkerStep
    \/ CliFinish

Spec == Init /\ [][Next]_vars

\* the event loop resumes main() once its wait is over, and cli() goes on
\* once main() is over
FairSpec == Spec /\ WF_vars(MainStep) /\ WF_vars(Cli) /\ WF_vars(CliFinish)
\* ------------------------------------------------------------- properties
\* the outbound queue, empty while it is not constructed
TxQ == IF "tx_queue" \in DOMAIN queue THEN queue["tx_queue"] ELSE <<>>

\* everything that was ever put on the outbound queue, in order
Outbound == wire \o TxQ

\* the values DUMP1090_URL may have, by what lines 53-77 make of their scheme
UrlValues == ConfigValues(SourceUrls)

HttpUrls == {u \in UrlValues : Contains(s_http, urlparse_scheme(u))}

TcpUrls == {u \in UrlValues : Contains(s_tcp, urlparse_scheme(u))}

PlusUrls == {u \in UrlValues : Contains(s_plus, urlparse_scheme(u))}

\* the scheme has two "+" or more
PlusPlusUrls ==
    {u \in PlusUrls :
        LET sch == urlparse_scheme(u)
        IN  Find(sch, "+", Find(sch, "+", 1) + 1) > 0}

\* the URLs that take the branch of line 66
StreamUrls == {u \in UrlValues : IsStream(urlparse_scheme(u))}

\* the part of a scheme after its first "+"
AfterPlus(sch) == SubSeq(sch, Find(sch, "+", 1) + 1, Len(sch))

\* the sub-format tag a URL asks for: after the "+", "raw" without one
TagOf ==
    [u \in UrlValues |->
        IF u \in PlusUrls THEN AfterPlus(urlparse_scheme(u)) ELSE s_raw]

IsHelloOrSource(e) == e \in {"hello", "start:message_worker"}

IsHelloOrStart(e) ==
    e \in {"hello", "start:net_receiver", "start:message_worker",
           "start:read_worker", "start:write_worker"}

IsHello(e) == e.type = "hello"

\* the hello events in a sequence of events
Hellos(q) == Len(SelectSeq(q, IsHello))

\* cli() found the configuration complete and called main()
Entered == has_section /\ Truthy(COT_URL) /\ Truthy(DUMP1090_URL)

SomeDone == \E t \in tasks : taskState[t] \in {"finished", "failed"}

NothingStarted ==
    /\ tasks = {}
    /\ \A t \in TaskNames : started[t] = 0 /\ taskState[t] = "none"

NothingConstructed ==
    /\ write_worker = NoWorker
    /\ read_worker = NoWorker
    /\ message_worker = NoWorker
    /\ adsbnetreceiver = NoWorker

\* C1: main() has not returned while no started task is done, and once
\* main() waits and some started task is done (finished or failed), main()
\* eventually returns.
C1_FirstCompleted ==
    /\ [](mainpc = "returned" => SomeDone)
    /\ ((mainpc = "waiting" /\ SomeDone) ~> (mainpc = "returned"))

\* main() has returned while another task is still running
C1_Witness ==
    /\ mainpc = "returned"
    /\ \E t \in tasks : taskState[t] = "failed"
    /\ \E t \in tasks : taskState[t] = "pending"

\* C2: no task is ever started twice, and when main() returns every task
\* outside the done set is still pending, neither cancelled nor awaited.
C2_Abandoned ==
    /\ \A t \in TaskNames : started[t] <= 1
    /\ (mainpc = "returned" /\ clipc = "running") =>
          /\ pending = tasks \ done
          /\ \A t \in tasks \ done : taskState[t] = "pending"
          /\ \A t \in done : taskState[t] \in {"finished", "failed"}

C2_Witness ==
    /\ mainpc = "returned"
    /\ clipc = "running"
    /\ Cardinality(done) = 1
    /\ Cardinality(pending) = 3

C5_MissingUrl ==
    (~Truthy(COT_URL) \/ ~Truthy(DUMP1090_URL)) =>
        /\ mainpc = "idle"
        /\ connects = 0
        /\ DOMAIN queue = {}
        /\ NothingStarted
        /\ NothingConstructed
        /\ clipc \in {"start", "exited"}
        /\ (clipc = "exited" => exitStatus = 1 /\ printed # {})

C5_Witness ==
    /\ clipc = "exited"
    /\ COT_URL = None
    /\ "Please specify a CoT Destination URL" \in printed

\* C6: at most one hello event is ever enqueued, exactly one once main() is
\* past line 93; it is enqueued before the Source Worker task is started, it
\* is the first item of the outbound queue, and the first item the
\* Transmitter writes.
C6_HelloFirst ==
    /\ Hellos(Outbound) <= 1
    /\ (mainpc \in {"start", "wait", "waiting", "returned"} =>
          Hellos(Outbound) = 1)
    /\ (started["message_worker"] > 0 =>
          SelectSeq(events, IsHelloOrSource) =
              <<"hello", "start:message_worker">>)
    /\ (Outbound # <<>> => Head(Outbound) = hello_event)

C6_Witness ==
    /\ Len(wire) >= 2
    /\ wire[1] = hello_event
    /\ wire[2].type = "cot"
\* main() is past the choice of the source worker (lines 58-91)
Selected ==
    \/ mainpc \in {"hello", "start", "wait", "waiting", "returned"}
    \/ mainpc = "raised" /\ error \notin {"none", "ConnectError"}

PollOnly ==
    /\ message_worker.kind = "ADSBWorker"
    /\ adsbnetreceiver = NoWorker
    /\ "net_queue" \notin DOMAIN queue
    /\ started["net_receiver"] = 0

StreamBuilt ==
    /\ message_worker.kind = "ADSBNetWorker"
    /\ adsbnetreceiver.kind = "ADSBNetReceiver"
    /\ "net_queue" \in DOMAIN queue

StartsWith(pre, sch) == Len(sch) >= Len(pre) /\ SubSeq(sch, 1, Len(pre)) = pre

RECURSIVE Count(_, _)
Count(q, c) ==
    IF q = <<>> THEN 0
    ELSE (IF Head(q) = c THEN 1 ELSE 0) + Count(Tail(q), c)

\* C7 as stated: a scheme that begins with "http" gets the poll variant
\* only, a scheme that is "tcp" or begins with "tcp+" gets, with the decoder
\* available, the stream variant with Net Receiver and raw-frame queue, and
\* a source worker is constructed at most once.
C7_Original ==
    /\ Count(events, "message_worker") <= 1
    /\ Selected =>
          /\ (StartsWith(s_http, scheme) => PollOnly)
          /\ ((scheme = s_tcp \/ StartsWith(s_tcp \o s_plus, scheme))
                 /\ with_pymodes => StreamBuilt)

\* C7 amended: a scheme that contains "http" gets the poll variant only
\* (also one that begins with "tcp+"); a scheme that contains "tcp", not
\* "http", and at most one "+" gets, with the decoder available, the stream
\* variant with Net Receiver and raw-frame queue; with two or more "+" the
\* run ends in ValueError with no worker constructed; a source worker is
\* constructed at most once.
C7_Amended ==
    /\ Cardinality({i \in DOMAIN events : events[i] = "message_worker"}) <= 1
    /\ (message_worker.kind = "ADSBWorker" => PollOnly)
    /\ (message_worker.kind = "ADSBNetWorker" => StreamBuilt)
    /\ Selected =>
          /\ (DUMP1090_URL \in HttpUrls => PollOnly)
          /\ (with_pymodes
                 /\ DUMP1090_URL \in (TcpUrls \ HttpUrls) \ PlusPlusUrls =>
                   StreamBuilt)
          /\ (with_pymodes
                 /\ DUMP1090_URL \in (TcpUrls \ HttpUrls) \cap PlusPlusUrls =>
                   /\ error = "ValueError"
                   /\ message_worker = NoWorker
                   /\ adsbnetreceiver = NoWorker)

C7_Witness ==
    /\ mainpc = "waiting"
    /\ StartsWith(s_tcp \o s_plus, scheme)
    /\ with_pymodes
    /\ PollOnly

\* C8: in the stream variant the data_type of the Net Receiver and of the
\* Source Worker is the part of the scheme after the "+", "raw" without a
\* "+"; the Net Receiver puts on the raw-frame queue the Source Worker gets
\* from, and no other worker is connected to that queue.
C8_DataType ==
    message_worker.kind = "ADSBNetWorker" =>
        LET tag == TagOf[DUMP1090_URL]
        IN  /\ message_worker.data_type = tag
            /\ adsbnetreceiver.data_type = tag
            /\ adsbnetreceiver.queue = "net_queue"
            /\ message_worker.net_queue = "net_queue"
            /\ message_worker.queue # "net_queue"
            /\ write_worker.queue # "net_queue"
            /\ read_worker.queue # "net_queue"
            /\ "net_queue" \in DOMAIN queue

C8_Witness ==
    /\ message_worker.kind = "ADSBNetWorker"
    /\ DUMP1090_URL = <<"T","C","P","+","b",":","h">>
    /\ adsbnetreceiver.data_type = <<"b">>
    /\ queue["net_queue"] # <<>>

C10_ConnectFatal ==
    /\ (~transport =>
          /\ NothingConstructed
          /\ NothingStarted
          /\ Outbound = <<>>
          /\ "net_queue" \notin DOMAIN queue)
    /\ (error = "ConnectError" =>
          /\ mainpc = "raised"
          /\ ~transport
          /\ connects = 1
          /\ (clipc = "exited" => exitStatus = 1))

C10_Witness ==
    /\ error = "ConnectError"
    /\ clipc = "exited"
    /\ exitStatus = 1

\* main() has started its last task (line 97)
AllStarted == mainpc \in {"wait", "waiting", "returned"}

\* C11: once main() is at its wait, the tasks are the three of the poll
\* variant or the four of the stream variant, each started exactly once and
\* still pending when the wait begins, and no task is started without being
\* in the set main() waits on.
C11_AllStarted ==
    /\ \A t \in TaskNames : started[t] > 0 => t \in tasks
    /\ AllStarted =>
          LET expected == IF message_worker.kind = "ADSBNetWorker"
                          THEN {"net_receiver", "message_worker",
                                "read_worker", "write_worker"}
                          ELSE {"message_worker", "read_worker",
                                "write_worker"}
          IN  /\ tasks = expected
              /\ Cardinality(tasks) =
                    (IF message_worker.kind = "ADSBNetWorker" THEN 4 ELSE 3)
              /\ \A t \in TaskNames :
                    started[t] = (IF t \in expected THEN 1 ELSE 0)
              /\ \A t \in TaskNames : (taskState[t] # "none") <=> t \in tasks
    /\ mainpc = "wait" => \A t \in tasks : taskState[t] = "pending"

C11_Witness ==
    /\ mainpc = "wait"
    /\ Cardinality(tasks) = 4
    /\ \A t \in tasks : started[t] = 1

IsPrefix(a, b) == Len(a) <= Len(b) /\ SubSeq(b, 1, Len(a)) = a

\* C12: on every queue the items got are a prefix of the items put, and the
\* items put are the items got followed by the items still queued: nothing
\* is lost, duplicated or reordered.
C12_Fifo ==
    \A n \in DOMAIN queue :
        /\ IsPrefix(dequeued[n], enqueued[n])
        /\ enqueued[n] = dequeued[n] \o queue[n]

C12_Witness ==
    /\ "net_queue" \in DOMAIN queue
    /\ Len(dequeued["tx_queue"]) = 1
    /\ Len(queue["tx_queue"]) = 1
    /\ Len(dequeued["net_queue"]) = 1
    /\ Len(queue["net_queue"]) = 1

Ids(q) == [i \in 1..Len(q) |-> q[i].id]

IsOk(f) == f.kind = "ok"

IsCot(e) == e.type = "cot"

C14_Report ==
    /\ mainpc # "returned" => \A t \in TaskNames : reported[t] = 0
    /\ mainpc = "returned" =>
          /\ done # {}
          /\ \A t \in TaskNames :
                reported[t] = (IF t \in done THEN 1 ELSE 0)
          /\ \A t \in TaskNames :
                reported[t] > 0 => taskState[t] \in {"finished", "failed"}
          /\ \A t \in pending : reported[t] = 0

C14_Witness ==
    /\ mainpc = "returned"
    /\ Cardinality(done) = 2
    /\ pending # {}
    /\ \A t \in done : reported[t] = 1

\* C15: nothing is ever got from the inbound queue, only events read by the
\* Receiver are on it, none of them reaches the outbound or the raw-frame
\* queue, and every step that changes the inbound queue is a step of the
\* Receiver that appends one item and leaves the outbound queue and the
\* wire alone.
C15_InboundUnconsumed ==
    /\ [](/\ dequeued["rx_queue"] = <<>>
          /\ "rx_queue" \in DOMAIN queue =>
                queue["rx_queue"] = enqueued["rx_queue"]
          /\ \A i \in 1..Len(enqueued["rx_queue"]) :
                enqueued["rx_queue"][i].type = "rx"
          /\ \A i \in 1..Len(enqueued["tx_queue"]) :
                enqueued["tx_queue"][i].type # "rx"
          /\ Len(enqueued["rx_queue"]) = rxRead)
    /\ [][("rx_queue" \in DOMAIN queue
             /\ queue'["rx_queue"] # queue["rx_queue"]) =>
              /\ Len(queue'["rx_queue"]) = Len(queue["rx_queue"]) + 1
              /\ IsPrefix(queue["rx_queue"], queue'["rx_queue"])
              /\ rxRead' = rxRead + 1
              /\ queue'["tx_queue"] = queue["tx_queue"]
              /\ wire' = wire]_vars

C15_Witness ==
    /\ clipc = "exited"
    /\ "rx_queue" \in DOMAIN queue
    /\ Len(queue["rx_queue"]) = 1
    /\ wire # <<>>

\* no worker task has taken a step
NoWorkerStep ==
    /\ framesRead = 0
    /\ polls = 0
    /\ rxRead = 0
    /\ wire = <<>>
    /\ \A n \in QueueNames : dequeued[n] = <<>>
    /\ \A t \in TaskNames : taskState[t] \in {"none", "pending"}

\* C16: no queue is ever full, whatever its length, so no put suspends; the
\* put of the hello event is done with no task having taken a step, also
\* when the Net Receiver task exists already.
C16_Unbounded ==
    /\ \A n \in DOMAIN queue : ~Full(queue[n])
    /\ mainpc \in {"hello", "start", "wait"} => NoWorkerStep
    /\ mainpc \in {"start", "wait"} => enqueued["tx_queue"] = <<hello_event>>

C16_Witness ==
    /\ DOMAIN queue = {"tx_queue", "rx_queue"}
    /\ Len(queue["tx_queue"]) = 3
    /\ Len(queue["rx_queue"]) = 1

\* C17: once a task is done and the process has exited, main() has
\* returned without an exception and the exit status is 0, whether the
\* task finished or failed.
C17_OutcomeIndependent ==
    /\ mainpc = "returned" => error = "none"
    /\ (clipc = "exited" /\ SomeDone) =>
          /\ mainpc = "returned"
          /\ error = "none"
          /\ exitStatus = 0
          /\ "Traceback" \notin printed

C17_Witness ==
    /\ clipc = "exited"
    /\ exitStatus = 0
    /\ Cardinality(done) = 1
    /\ \A t \in done : taskState[t] = "failed"

\* C18: in the stream variant the Net Receiver task is created before the
\* hello event is enqueued and the Source Worker, Receiver and Transmitter
\* tasks after it, in that order; no task takes a step before main() is at
\* its wait, with all tasks created and the hello event enqueued.
C18_Order ==
    /\ (message_worker.kind = "ADSBNetWorker" /\ AllStarted) =>
          SelectSeq(events, IsHelloOrStart) =
              <<"start:net_receiver", "hello", "start:message_worker",
                "start:read_worker", "start:write_worker">>
    /\ (message_worker.kind = "ADSBNetWorker" /\ mainpc = "hello") =>
          taskState = [t \in TaskNames |->
                         IF t = "net_receiver" THEN "pending" ELSE "none"]
    /\ ~NoWorkerStep =>
          /\ mainpc \in {"waiting", "returned"}
          /\ events[Len(events)] \in {"wait", "return"}
          /\ {"message_worker", "read_worker", "write_worker"} \subseteq tasks
          /\ \A t \in tasks : started[t] = 1
          /\ Head(enqueued["tx_queue"]) = hello_event

C18_Witness ==
    /\ message_worker.kind = "ADSBNetWorker"
    /\ mainpc = "waiting"
    /\ framesRead = 1
    /\ queue["tx_queue"] = <<hello_event>>

\* C19: with a scheme that contains "http" the decoder check is never made
\* and main() does not fail once connected: the poll-variant Source Worker
\* is constructed, one hello event is enqueued and three tasks are started,
\* with or without the decoder.
C19_PollNoDecoder ==
    (Entered /\ DUMP1090_URL \in HttpUrls) =>
        /\ \A i \in DOMAIN events : events[i] # "with_pymodes"
        /\ error # "MissingPyModeS"
        /\ (transport => mainpc # "raised")
        /\ (mainpc \in {"hello", "start", "wait", "waiting", "returned"} =>
              PollOnly)
        /\ (AllStarted =>
              /\ tasks = {"message_worker", "read_worker", "write_worker"}
              /\ Hellos(enqueued["tx_queue"]) = 1)

C19_Witness ==
    /\ ~with_pymodes
    /\ Contains(s_http, scheme)
    /\ mainpc = "waiting"
    /\ Cardinality(tasks) = 3
    /\ Hellos(Outbound) = 1
====
